---------------------------- MODULE Spec2Model ----------------------------
(***************************************************************************)
(* Model of the v2.1.0 GUI of yt2mp3mp4 (src/unnamed/part_000, lines 823   *)
(* to 1352): the link validator and metadata fetch worker (wait_link),     *)
(* the quality gating (_refresh_quality_menu, update_quality_options),     *)
(* the size estimation cache (update_filesize_display,                     *)
(* _estimate_and_update_size) and the Tk "after" queue through which       *)
(* background threads hand work to the UI thread.                          *)
(*                                                                         *)
(* Texts are sequences of tokens (short pieces of a string); the string a  *)
(* text stands for is the concatenation of its tokens.                     *)
(***************************************************************************)
EXTENDS Integers, Sequences, FiniteSets, Bags, TLC

\* ------------------------------------------------------------------ bounds
\* Number of edits of the link entry in one behaviour.
MaxEdits == 2
\* Number of clicks on the MP3/MP4 radio buttons and the quality menu.
MaxClicks == 1
\* Number of size estimation threads running at once.
MaxEst == 2
\* Longest text (in tokens) the classification specification enumerates.
MaxTextLen == 4
\* Longest format list the gating specification enumerates.
MaxFormats == 2
\* Number of parts of a resolved format the service reports at most.
MaxParts == 2
\* Number of clicks on Convert in one behaviour.
MaxAttempts == 2
\* Number of progress events of one download.
MaxEvents == 2
\* Number of characters of a percent string.
MaxPctLen == 6
\* Number of calls of download_file (v1.1.1).
MaxCalls == 2

\* ------------------------------------------------------------------ texts
SchemeTok == "https:"
SlashesTok == "//"
SlashTok == "/"
SpaceTok == " "
YoutubeCom == "youtube.com"
YoutuBe == "youtu.be"
\* Tokens that end a host name, and tokens that may precede them in a host name.
DomainToks == {YoutubeCom, YoutuBe, "example.org"}
PrefixToks == {"www.", "not"}
Tokens == {SchemeTok, SlashesTok, SlashTok, SpaceTok, "v"} \cup DomainToks \cup PrefixToks

EmptyText == <<>>

\* Index of the first token of t at or after position i that starts with "/",
\* Len(t) + 1 when there is none.
RECURSIVE FirstSlashFrom(_, _)
FirstSlashFrom(t, i) ==
    IF i > Len(t) THEN Len(t) + 1
    ELSE IF t[i] \in {SlashTok, SlashesTok} THEN i
    ELSE FirstSlashFrom(t, i + 1)

\* urlparse(url).netloc: what stands between the "//" after the scheme and the
\* next "/"; empty when the text has no "scheme://" head.
Netloc(t) ==
    IF Len(t) >= 2 /\ t[1] = SchemeTok /\ t[2] = SlashesTok
    THEN SubSeq(t, 3, FirstSlashFrom(t, 3) - 1)
    ELSE <<>>

\* validators.url(url): scheme, "//", a host name (labels, then a registered
\* domain), then nothing or a path; no whitespace anywhere.
ValidatorsUrl(t) ==
    /\ Len(t) >= 3
    /\ t[1] = SchemeTok
    /\ t[2] = SlashesTok
    /\ \A i \in 1..Len(t) : t[i] # SpaceTok
    /\ LET net == Netloc(t)
       IN  /\ Len(net) >= 1
           /\ net[Len(net)] \in DomainToks
           /\ \A i \in 1..(Len(net) - 1) : net[i] \in PrefixToks

\* 'youtube.com' in net or 'youtu.be' in net: a substring test; a token sequence
\* contains the string exactly when it contains the token.
_is_youtube_url(t) ==
    \E i \in 1..Len(Netloc(t)) : Netloc(t)[i] \in {YoutubeCom, YoutuBe}

\* str.strip(): leading and trailing whitespace removed.
RECURSIVE LStrip(_)
LStrip(t) == IF t # <<>> /\ Head(t) = SpaceTok THEN LStrip(Tail(t)) ELSE t
RECURSIVE RStrip(_)
RStrip(t) ==
    IF t # <<>> /\ t[Len(t)] = SpaceTok THEN RStrip(SubSeq(t, 1, Len(t) - 1)) ELSE t
Strip(t) == RStrip(LStrip(t))

\* The link status texts of wait_link.
StWaiting == "Waiting for link..."
StVerifying == "Verifying link..."
StInvalid == "Please enter a valid link."
StNotYoutube == "Please enter a valid YouTube link."
StCorrect == "Link correct..."
StFetching == "Fetching link..."
StError == "Error fetching link."
StFetched == "Link fetched!"

\* Classify without step 4 of wait_link (the platform check).
ClassifyNoPlatformCheck(t) ==
    IF t = <<>> THEN "Empty"
    ELSE IF ~ValidatorsUrl(t) THEN "InvalidSyntax"
    ELSE "Valid"

\* The branch wait_link takes for a text: the checks in the order of the code.
Classify(t) ==
    IF t = <<>> THEN "Empty"
    ELSE IF ~ValidatorsUrl(t) THEN "InvalidSyntax"
    ELSE IF ~_is_youtube_url(t) THEN "UnsupportedPlatform"
    ELSE "Valid"


\* ------------------------------------------------------------------ gating
\* A value a format dictionary does not hold (f.get(...) is None).
Missing == -1

AudioOpts == << [label |-> "Low", val |-> 96], [label |-> "Medium", val |-> 192],
                [label |-> "High", val |-> 320] >>
VideoOpts == << [label |-> "480p", val |-> 480], [label |-> "720p", val |-> 720],
                [label |-> "1080p", val |-> 1080], [label |-> "4K", val |-> 2160] >>
Opts(is_mp3) == IF is_mp3 THEN AudioOpts ELSE VideoOpts

\* f.get('abr') or 0, f.get('height') or 0
OrZero(v) == IF v = Missing \/ v = 0 THEN 0 ELSE v

\* The formats _refresh_quality_menu looks at: vcodec == 'none' for audio,
\* vcodec != 'none' (a missing vcodec included) for video.
IsAudioFormat(f) == f.vcodec = "none"
CapList(formats, is_mp3) ==
    LET keep == SelectSeq(formats, LAMBDA f : IF is_mp3 THEN IsAudioFormat(f)
                                                       ELSE ~IsAudioFormat(f))
    IN  [i \in 1..Len(keep) |-> IF is_mp3 THEN OrZero(keep[i].abr)
                                          ELSE OrZero(keep[i].height)]

\* max(list) if list else 0
RECURSIVE MaxOf(_)
MaxOf(s) ==
    IF s = <<>> THEN 0
    ELSE LET m == MaxOf(Tail(s)) IN IF Len(s) = 1 \/ Head(s) >= m THEN Head(s) ELSE m

\* EntryState with < in the place of <=.
EntryStateLt(val, max) == IF val < max THEN "normal" ELSE "disabled"

\* state = 'normal' if value <= max else 'disabled'
EntryState(val, max) == IF val <= max THEN "normal" ELSE "disabled"

\* The menu _refresh_quality_menu builds: one entry per option of the kind.
GateMenu(formats, is_mp3) ==
    LET opts == Opts(is_mp3)
        max == MaxOf(CapList(formats, is_mp3))
    IN  [i \in 1..Len(opts) |->
            [label |-> opts[i].label, state |-> EntryState(opts[i].val, max)]]

\* The menu update_quality_options builds: every entry of the kind, enabled.
PlainMenu(is_mp3) ==
    LET opts == Opts(is_mp3)
    IN  [i \in 1..Len(opts) |-> [label |-> opts[i].label, state |-> "normal"]]

\* default_label = opts[len(opts)//2][0] (Python indexes from 0)
DefaultLabel(is_mp3) == Opts(is_mp3)[(Len(Opts(is_mp3)) \div 2) + 1].label

MenuLabels(menu) == {menu[i].label : i \in DOMAIN menu}
EnabledLabels(menu) == {menu[i].label : i \in {j \in DOMAIN menu : menu[j].state = "normal"}}
\* FirstEnabled taking the last entry whose state is 'normal'.
LastEnabled(menu) ==
    LET idx == {j \in DOMAIN menu : menu[j].state = "normal"}
    IN  menu[CHOOSE j \in idx : \A k \in idx : j >= k].label

\* The first entry whose state is 'normal' (the for/break loop of the code).
FirstEnabled(menu) ==
    LET idx == {j \in DOMAIN menu : menu[j].state = "normal"}
    IN  menu[CHOOSE j \in idx : \A k \in idx : j <= k].label

\* --------------------------------------------------------- metadata, cache
\* self.current_info: None, or what extract_info returned for a link; the title
\* and the thumbnail address are those of the link the query was made for.
NoInfo == [present |-> FALSE, src |-> <<>>, formats |-> <<>>]
MkInfo(url, formats) == [present |-> TRUE, src |-> url, formats |-> formats]

Key(url, is_mp3, quality) == [url |-> url, mp3 |-> is_mp3, q |-> quality]
NoKey == Key(<<>>, TRUE, "")
CacheKeys(cache) == {e.key : e \in cache}
CacheGet(cache, k) == (CHOOSE e \in cache : e.key = k).val
\* self.size_cache[key] = total
CachePut(cache, k, v) == {e \in cache : e.key # k} \cup {[key |-> k, val |-> v]}

\* The texts of self.filesize_label.
LblBlank == [s |-> "", n |-> 0]
LblEstimating == [s |-> "Estimating size...", n |-> 0]
LblUnknown == [s |-> "Size unknown", n |-> 0]
LblSize(n) == [s |-> "Estimated size", n |-> n]

\* --------------------------------------------- handlers run on the UI thread
\* They are written as functions of the part of the state they read and write:
\* u.url (in_link_entry), u.mp3 (is_mp3), u.q (quality_var), u.menu, u.info
\* (current_info), u.cache (size_cache), u.label (filesize_label), u.est (the
\* size estimation threads started and not yet finished), u.sets (history: the
\* number of calls of quality_var.set the handler has made).

update_filesize_display(u) ==
    LET url == Strip(u.url)
        key == Key(url, u.mp3, u.q)
    IN  IF url = <<>> THEN [u EXCEPT !.label = LblBlank]
        ELSE IF key \in CacheKeys(u.cache)
             THEN [u EXCEPT !.label = LblSize(CacheGet(u.cache, key))]
             ELSE [u EXCEPT !.label = LblEstimating,
                            !.est = u.est (+) SetToBag({key})]

\* _refresh_quality_menu; quality_var.set(lbl) inside it runs the write trace of
\* quality_var, which is _refresh_quality_menu again.
RECURSIVE _refresh_quality_menu(_)
\* _refresh_quality_menu falling back to the option below the selected one.
_refresh_quality_menu_stepping(u) ==
    IF ~u.info.present THEN u
    ELSE LET menu == GateMenu(u.info.formats, u.mp3)
             u1 == [u EXCEPT !.menu = menu]
             at == CHOOSE j \in DOMAIN menu : menu[j].label = u1.q
             u2 == IF u1.q \notin EnabledLabels(menu) /\ EnabledLabels(menu) # {}
                   THEN _refresh_quality_menu([u1 EXCEPT !.q = menu[at - 1].label,
                                                         !.sets = @ + 1])
                   ELSE u1
         IN  update_filesize_display(u2)

_refresh_quality_menu(u) ==
    IF ~u.info.present THEN u
    ELSE LET menu == GateMenu(u.info.formats, u.mp3)
             u1 == [u EXCEPT !.menu = menu]
             u2 == IF u1.q \notin EnabledLabels(menu) /\ EnabledLabels(menu) # {}
                   THEN _refresh_quality_menu([u1 EXCEPT !.q = FirstEnabled(menu),
                                                         !.sets = @ + 1])
                   ELSE u1
         IN  update_filesize_display(u2)

\* update_quality_options without quality_var.set(default_label).
update_quality_options_keeping(u) ==
    LET u1 == [u EXCEPT !.menu = PlainMenu(u.mp3)]
    IN  _refresh_quality_menu(u1)

\* update_quality_options: the write trace of is_mp3.
update_quality_options(u) ==
    LET u1 == [u EXCEPT !.menu = PlainMenu(u.mp3)]
        u2 == _refresh_quality_menu([u1 EXCEPT !.q = DefaultLabel(u.mp3),
                                               !.sets = @ + 1])
    IN  _refresh_quality_menu(u2)

\* ------------------------------------------------------ the size query
\* What extract_info returns to _estimate_and_update_size: the parts of the
\* resolved format ('requested_formats'), or, without that key, the sizes of the
\* result itself; a size the service does not report is Missing.
Part(filesize, approx) == [filesize |-> filesize, filesize_approx |-> approx]
\* PartSize reading 'filesize' alone.
PartSizeExact(p) == OrZero(p.filesize)

\* f.get('filesize') or f.get('filesize_approx') or 0
PartSize(p) ==
    IF OrZero(p.filesize) # 0 THEN p.filesize ELSE OrZero(p.filesize_approx)
RECURSIVE SumParts(_)
SumParts(parts) ==
    IF parts = <<>> THEN 0 ELSE PartSize(Head(parts)) + SumParts(Tail(parts))
Total(result) ==
    IF result.requested THEN SumParts(result.parts) ELSE PartSize(result.parts[1])

\* The answers of the service the model draws from.
SizeResults ==
    { [requested |-> FALSE, parts |-> << Part(1, Missing) >>],
      [requested |-> TRUE, parts |-> << Part(1, Missing), Part(Missing, 1) >>],
      [requested |-> TRUE, parts |-> << Part(1, Missing), Part(Missing, Missing) >>] }

Fmt(vcodec, abr, height) == [vcodec |-> vcodec, abr |-> abr, height |-> height]
RichFormats == << Fmt("none", 320, Missing), Fmt("avc1", Missing, 2160) >>
PoorFormats == << Fmt("none", 150, Missing), Fmt("avc1", Missing, 720) >>
\* What the service answers for a link: one link has the high tiers, the other not.
ServiceFormats(url) == IF url = << SchemeTok, SlashesTok, YoutubeCom >> THEN {RichFormats} ELSE {PoorFormats}

\* The texts typed into the link entry.
YtA == << SchemeTok, SlashesTok, YoutubeCom >>
YtB == << SchemeTok, SlashesTok, YoutuBe >>
BadText == << "v" >>
MainTexts == {EmptyText, BadText, YtA, YtB}

\* ------------------------------------------------------------------- state
VARIABLES
    in_link_entry,   \* self.in_link_entry: the text of the link entry
    is_mp3,          \* self.is_mp3
    quality_var,     \* self.quality_var
    menu,            \* the entries of self.quality_menu['menu']
    current_info,    \* self.current_info
    size_cache,      \* self.size_cache
    filesize_label,  \* the text of self.filesize_label
    video_title,     \* the text of self.video_title
    thumbnail,       \* the image on the self.thumbnail canvas
    link_status,     \* the text of self.link_status
    afterq,          \* handlers registered with window.after, in registration order
    workers,         \* the wait_link threads, a bag
    est,             \* the _estimate_and_update_size threads, a bag of their keys
    edits,           \* number of edits of the link entry so far
    clicks,          \* number of radio button and menu clicks so far
    latestOutcome,   \* history: how the wait_link thread of the latest edit ended
    prevLink,        \* history: the link whose metadata the last fetch replaced
    statusHandlers,  \* whether the handlers that set link_status are followed
    estLimit,        \* how many size estimation threads are followed at a time
    status_text,     \* the text of self.status_text
    download_status, \* the text of self.download_status
    widgets,         \* the state change_widgets gave the input widgets
    revealed,        \* number of calls of webbrowser.open so far
    converts,        \* the convert_now threads, a bag
    resets,          \* the reset_dl_status threads, a bag of their positions
    attempts,        \* number of clicks on Convert so far
    files,           \* v1.1.1: the paths of the files on the disk
    call             \* v1.1.1: the activation of download_file

\* The state of the download side: convert_now, yt_dlp_hook, reset_dl_status.
dlvars == << status_text, download_status, widgets, revealed, converts, resets,
            attempts >>

\* The state of the v1.1.1 program's download_file.
v1vars == << files, call >>

vars == << in_link_entry, is_mp3, quality_var, menu, current_info, size_cache,
           filesize_label, video_title, thumbnail, link_status, afterq, workers,
           est, edits, clicks, latestOutcome, prevLink, statusHandlers, estLimit, dlvars,
           v1vars >>

\* An entry of the after queue: the handler, its delay in ms and its arguments
\* (s: a status text, t: a title, k and n: the key and size of an estimate).
Entry(h, delay, s, t, k, n) == [h |-> h, delay |-> delay, s |-> s, t |-> t, k |-> k, n |-> n]
StatusEntry(text, delay) == Entry("status", delay, text, <<>>, NoKey, 0)
ResetEntry == Entry("reset", 0, "", <<>>, NoKey, 0)
UpdEntry(title) == Entry("upd", 0, "", title, NoKey, 0)
RefreshEntry == Entry("refresh", 0, "", <<>>, NoKey, 0)
UfdEntry == Entry("ufd", 0, "", <<>>, NoKey, 0)
SizeEntry(k, n) == Entry("size", 0, "Estimated size", <<>>, k, n)
UnknownEntry(k) == Entry("size", 0, "Size unknown", <<>>, k, 0)

\* Runnable for a main loop that picks any registered handler.
RunnableInAnyOrder(i) == i \in DOMAIN afterq

\* Tk runs the handlers in the order of their due times: a handler runs once
\* every handler registered before it with the same or a shorter delay has run.
Runnable(i) == \A j \in 1..(i - 1) : afterq[j].delay > afterq[i].delay
RemoveAt(q, i) == SubSeq(q, 1, i - 1) \o SubSeq(q, i + 1, Len(q))

\* The handlers a thread registers with window.after. The handlers of kind
\* "status" write link_status and nothing else, and nothing but link_status
\* depends on them: a specification that does not look at link_status leaves
\* them out (statusHandlers = FALSE), which changes no other variable's values.
Registered(entries) ==
    IF statusHandlers THEN entries ELSE SelectSeq(entries, LAMBDA e : e.h # "status")

Worker(url, pc, latest, replaced) ==
    [url |-> url, pc |-> pc, latest |-> latest, replaced |-> replaced]
One(x) == SetToBag({x})

UI == [url |-> in_link_entry, mp3 |-> is_mp3, q |-> quality_var, menu |-> menu,
       info |-> current_info, cache |-> size_cache, label |-> filesize_label,
       est |-> est, sets |-> 0]
\* What the handlers of the quality menu and the size label leave behind.
SetUI(u) ==
    /\ BagCardinality(u.est) <= estLimit
    /\ quality_var' = u.q
    /\ menu' = u.menu
    /\ filesize_label' = u.label
    /\ est' = u.est

\* The download side after GUI.__init__: 'Idle', no download status, the
\* widgets enabled, no thread.
DlIdle ==
    /\ status_text = "Idle"
    /\ download_status = <<>>
    /\ widgets = "normal"
    /\ revealed = 0
    /\ converts = EmptyBag
    /\ resets = EmptyBag
    /\ attempts = 0

\* v1.1.1: a path is the sequence of its characters and of its extension; the
\* directory is fixed and left out.
NoPath == << >>

\* v1.1.1: download_file is not running (calls counts the calls so far).
NoCall(n) ==
    [pc |-> "idle", title |-> << >>, subtype |-> "", mode |-> "", temp |-> NoPath,
     transferred |-> FALSE, renamed |-> FALSE, calls |-> n]

\* v1.1.1 after GUI.__init__: an empty directory, no call of download_file.
V1Idle ==
    /\ files = {}
    /\ call = NoCall(0)

\* GUI.__init__: no link, MP3, 'Medium', and update_quality_options() run once.
LinkIdle ==
    /\ in_link_entry = EmptyText
    /\ is_mp3 = TRUE
    /\ quality_var = DefaultLabel(TRUE)
    /\ menu = PlainMenu(TRUE)
    /\ current_info = NoInfo
    /\ size_cache = {}
    /\ filesize_label = LblBlank
    /\ video_title = <<>>
    /\ thumbnail = <<>>
    /\ link_status = StWaiting
    /\ afterq = <<>>
    /\ workers = EmptyBag
    /\ est = EmptyBag
    /\ edits = 0
    /\ clicks = 0
    /\ latestOutcome = "none"
    /\ prevLink = <<>>
    /\ statusHandlers = FALSE
    /\ estLimit = MaxEst

Init == LinkIdle /\ DlIdle /\ V1Idle

\* ----------------------------------------------------------------- actions
\* Every wait_link thread started for an earlier text is no longer the latest.
MarkOld(B) ==
    LET old(w) == [w EXCEPT !.latest = FALSE]
        new(w) == [w EXCEPT !.latest = TRUE]
        n(x) == IF x \in DOMAIN B THEN B[x] ELSE 0
    IN  [x \in {old(w) : w \in DOMAIN B} |-> n(x) + n(new(x))]

Finish(w, outcome) ==
    /\ workers' = workers (-) One(w)
    /\ latestOutcome' = IF w.latest THEN outcome ELSE latestOutcome

\* The user changes the text of the link entry: the write trace of in_link_entry
\* runs start_wait_link_thread, which starts a wait_link thread for the text.
Edit(t) ==
    /\ edits < MaxEdits
    /\ edits' = edits + 1
    /\ in_link_entry' = t
    /\ workers' = MarkOld(workers) (+) One(Worker(t, "start", TRUE, <<>>))
    /\ latestOutcome' = "pending"
    /\ prevLink' = IF t = prevLink THEN <<>> ELSE prevLink
    /\ UNCHANGED << is_mp3, quality_var, menu, current_info, size_cache,
                    filesize_label, video_title, thumbnail, link_status, afterq,
                    est, clicks, statusHandlers, estLimit, dlvars, v1vars >>

\* BranchEntries without the delayed handlers that show 'Waiting for link...'.
BranchEntriesNoRevert(class) ==
    CASE class = "Empty" ->
            << StatusEntry(StWaiting, 0), ResetEntry >>
      [] class = "InvalidSyntax" ->
            << StatusEntry(StVerifying, 0), StatusEntry(StInvalid, 0), ResetEntry >>
      [] class = "UnsupportedPlatform" ->
            << StatusEntry(StVerifying, 0), StatusEntry(StNotYoutube, 0), ResetEntry >>
      [] OTHER ->
            << StatusEntry(StVerifying, 0), StatusEntry(StCorrect, 0),
               StatusEntry(StFetching, 1000) >>

\* wait_link, from its start to the return of a rejected text or to the call of
\* extract_info: the handlers it registers for the branch it takes.
BranchEntries(class) ==
    CASE class = "Empty" ->
            << StatusEntry(StWaiting, 0), ResetEntry >>
      [] class = "InvalidSyntax" ->
            << StatusEntry(StVerifying, 0), StatusEntry(StInvalid, 0),
               StatusEntry(StWaiting, 3000), ResetEntry >>
      [] class = "UnsupportedPlatform" ->
            << StatusEntry(StVerifying, 0), StatusEntry(StNotYoutube, 0),
               StatusEntry(StWaiting, 3000), ResetEntry >>
      [] OTHER ->
            << StatusEntry(StVerifying, 0), StatusEntry(StCorrect, 0),
               StatusEntry(StFetching, 1000) >>

WaitLinkClassify(w) ==
    /\ w.pc = "start"
    /\ afterq' = afterq \o Registered(BranchEntries(Classify(w.url)))
    /\ IF Classify(w.url) = "Valid"
       THEN /\ workers' = (workers (-) One(w)) (+) One([w EXCEPT !.pc = "query"])
            /\ UNCHANGED latestOutcome
       ELSE Finish(w, "rejected")
    /\ UNCHANGED << in_link_entry, is_mp3, quality_var, menu, current_info,
                    size_cache, filesize_label, video_title, thumbnail,
                    link_status, est, edits, clicks, prevLink, statusHandlers, estLimit, dlvars, v1vars >>

\* WaitLinkFetchFails clearing the size cache as a successful fetch does.
WaitLinkFetchFailsFlushing(w) ==
    /\ w.pc = "query"
    /\ afterq' = afterq \o Registered(<< StatusEntry(StError, 0) >>)
    /\ Finish(w, "failed")
    /\ size_cache' = {}
    /\ UNCHANGED << in_link_entry, is_mp3, quality_var, menu, current_info,
                    filesize_label, video_title, thumbnail,
                    link_status, est, edits, clicks, prevLink, statusHandlers, estLimit, dlvars, v1vars >>

\* extract_info raises: the except branch of wait_link.
WaitLinkFetchFails(w) ==
    /\ w.pc = "query"
    /\ afterq' = afterq \o Registered(<< StatusEntry(StError, 0) >>)
    /\ Finish(w, "failed")
    /\ UNCHANGED << in_link_entry, is_mp3, quality_var, menu, current_info,
                    size_cache, filesize_label, video_title, thumbnail,
                    link_status, est, edits, clicks, prevLink, statusHandlers, estLimit, dlvars, v1vars >>

\* extract_info returns: the thread stores the result in self.current_info and
\* registers upd (lines 1011 to 1022).
WaitLinkPublish(w, formats) ==
    /\ w.pc = "query"
    /\ current_info' = MkInfo(w.url, formats)
    /\ afterq' = Append(afterq, UpdEntry(w.url))
    /\ workers' = (workers (-) One(w))
                  (+) One([w EXCEPT !.pc = "flush", !.replaced = current_info.src])
    /\ UNCHANGED << in_link_entry, is_mp3, quality_var, menu, size_cache,
                    filesize_label, video_title, thumbnail, link_status, est,
                    edits, clicks, latestOutcome, prevLink, statusHandlers, estLimit, dlvars, v1vars >>

\* The thread clears the cache and registers the handlers of step 8 (lines 1023
\* to 1027).
WaitLinkFlush(w) ==
    /\ w.pc = "flush"
    /\ size_cache' = {}
    /\ afterq' = afterq \o Registered(<< RefreshEntry, UfdEntry, StatusEntry(StFetched, 0) >>)
    /\ Finish(w, "ok")
    /\ prevLink' = IF w.replaced \notin {<<>>, w.url, in_link_entry}
                   THEN w.replaced ELSE prevLink
    /\ UNCHANGED << in_link_entry, is_mp3, quality_var, menu, current_info,
                    filesize_label, video_title, thumbnail, link_status, est,
                    edits, clicks, statusHandlers, estLimit, dlvars, v1vars >>

\* The UI thread runs a handler that sets the link status.
RunStatus(i) ==
    /\ Runnable(i)
    /\ afterq[i].h = "status"
    /\ link_status' = afterq[i].s
    /\ afterq' = RemoveAt(afterq, i)
    /\ UNCHANGED << in_link_entry, is_mp3, quality_var, menu, current_info,
                    size_cache, filesize_label, video_title, thumbnail, workers,
                    est, edits, clicks, latestOutcome, prevLink, statusHandlers, estLimit, dlvars, v1vars >>

\* RunReset clearing the size cache with the size label.
RunResetFlushing(i) ==
    /\ Runnable(i)
    /\ afterq[i].h = "reset"
    /\ video_title' = <<>>
    /\ thumbnail' = <<>>
    /\ current_info' = NoInfo
    /\ filesize_label' = LblBlank
    /\ size_cache' = {}
    /\ afterq' = RemoveAt(afterq, i)
    /\ UNCHANGED << in_link_entry, is_mp3, quality_var, menu,
                    link_status, workers, est, edits, clicks, latestOutcome,
                    prevLink, statusHandlers, estLimit, dlvars, v1vars >>

\* reset_video_info_panel
RunReset(i) ==
    /\ Runnable(i)
    /\ afterq[i].h = "reset"
    /\ video_title' = <<>>
    /\ thumbnail' = <<>>
    /\ current_info' = NoInfo
    /\ filesize_label' = LblBlank
    /\ afterq' = RemoveAt(afterq, i)
    /\ UNCHANGED << in_link_entry, is_mp3, quality_var, menu, size_cache,
                    link_status, workers, est, edits, clicks, latestOutcome,
                    prevLink, statusHandlers, estLimit, dlvars, v1vars >>

\* upd of wait_link: the title, and the thumbnail when get_thumbnail returns one.
RunUpd(i, gotThumbnail) ==
    /\ Runnable(i)
    /\ afterq[i].h = "upd"
    /\ video_title' = afterq[i].t
    /\ thumbnail' = IF gotThumbnail THEN afterq[i].t ELSE <<>>
    /\ afterq' = RemoveAt(afterq, i)
    /\ UNCHANGED << in_link_entry, is_mp3, quality_var, menu, current_info,
                    size_cache, filesize_label, link_status, workers, est, edits,
                    clicks, latestOutcome, prevLink, statusHandlers, estLimit, dlvars, v1vars >>

RunRefresh(i) ==
    /\ Runnable(i)
    /\ afterq[i].h = "refresh"
    /\ SetUI(_refresh_quality_menu(UI))
    /\ afterq' = RemoveAt(afterq, i)
    /\ UNCHANGED << in_link_entry, is_mp3, current_info, size_cache, video_title,
                    thumbnail, link_status, workers, edits, clicks,
                    latestOutcome, prevLink, statusHandlers, estLimit, dlvars, v1vars >>

RunUfd(i) ==
    /\ Runnable(i)
    /\ afterq[i].h = "ufd"
    /\ SetUI(update_filesize_display(UI))
    /\ afterq' = RemoveAt(afterq, i)
    /\ UNCHANGED << in_link_entry, is_mp3, current_info, size_cache, video_title,
                    thumbnail, link_status, workers, edits, clicks,
                    latestOutcome, prevLink, statusHandlers, estLimit, dlvars, v1vars >>

\* The lambda of _estimate_and_update_size that sets the size label.
RunSize(i) ==
    /\ Runnable(i)
    /\ afterq[i].h = "size"
    /\ filesize_label' = [s |-> afterq[i].s, n |-> afterq[i].n]
    /\ afterq' = RemoveAt(afterq, i)
    /\ UNCHANGED << in_link_entry, is_mp3, quality_var, menu, current_info,
                    size_cache, video_title, thumbnail, link_status, workers,
                    est, edits, clicks, latestOutcome, prevLink, statusHandlers, estLimit, dlvars, v1vars >>

\* EstimateFails without the handler that shows 'Size unknown'.
EstimateFailsSilently(k) ==
    /\ BagIn(k, est)
    /\ est' = est (-) One(k)
    /\ UNCHANGED << in_link_entry, is_mp3, quality_var, menu, current_info,
                    size_cache, filesize_label, video_title, thumbnail,
                    link_status, afterq, workers, edits, clicks, latestOutcome,
                    prevLink, statusHandlers, estLimit, dlvars, v1vars >>

\* EstimateFails caching a size of 0 for the key.
EstimateFailsCachingZero(k) ==
    /\ BagIn(k, est)
    /\ est' = est (-) One(k)
    /\ size_cache' = CachePut(size_cache, k, 0)
    /\ afterq' = Append(afterq, UnknownEntry(k))
    /\ UNCHANGED << in_link_entry, is_mp3, quality_var, menu, current_info,
                    filesize_label, video_title, thumbnail,
                    link_status, workers, edits, clicks, latestOutcome, prevLink, statusHandlers, estLimit, dlvars, v1vars >>

\* _estimate_and_update_size, the query raises.
EstimateFails(k) ==
    /\ BagIn(k, est)
    /\ est' = est (-) One(k)
    /\ afterq' = Append(afterq, UnknownEntry(k))
    /\ UNCHANGED << in_link_entry, is_mp3, quality_var, menu, current_info,
                    size_cache, filesize_label, video_title, thumbnail,
                    link_status, workers, edits, clicks, latestOutcome, prevLink, statusHandlers, estLimit, dlvars, v1vars >>

\* _estimate_and_update_size, the query returns: the thread writes the cache and
\* registers the label update.
EstimateReturns(k, result) ==
    /\ BagIn(k, est)
    /\ est' = est (-) One(k)
    /\ size_cache' = CachePut(size_cache, k, Total(result))
    /\ afterq' = Append(afterq, SizeEntry(k, Total(result)))
    /\ UNCHANGED << in_link_entry, is_mp3, quality_var, menu, current_info,
                    filesize_label, video_title, thumbnail, link_status, workers,
                    edits, clicks, latestOutcome, prevLink, statusHandlers, estLimit, dlvars, v1vars >>

\* A click on the MP3 or the MP4 radio button writes is_mp3; its write trace is
\* update_quality_options.
ClickKind(b) ==
    /\ clicks < MaxClicks
    /\ clicks' = clicks + 1
    /\ is_mp3' = b
    /\ SetUI(update_quality_options([UI EXCEPT !.mp3 = b]))
    /\ UNCHANGED << in_link_entry, current_info, size_cache, video_title,
                    thumbnail, link_status, afterq, workers, edits,
                    latestOutcome, prevLink, statusHandlers, estLimit, dlvars, v1vars >>

\* A click on an enabled entry of the quality menu: quality_var.set(label), whose
\* write trace is _refresh_quality_menu.
SelectQuality(label) ==
    /\ clicks < MaxClicks
    /\ label \in EnabledLabels(menu)
    /\ clicks' = clicks + 1
    /\ SetUI(_refresh_quality_menu([UI EXCEPT !.q = label]))
    /\ UNCHANGED << in_link_entry, is_mp3, current_info, size_cache, video_title,
                    thumbnail, link_status, afterq, workers, edits,
                    latestOutcome, prevLink, statusHandlers, estLimit, dlvars, v1vars >>

AllLabels == {AudioOpts[i].label : i \in DOMAIN AudioOpts}
                 \cup {VideoOpts[i].label : i \in DOMAIN VideoOpts}

Next ==
    \/ \E t \in MainTexts : Edit(t)
    \/ \E w \in BagToSet(workers) : WaitLinkClassify(w)
    \/ \E w \in BagToSet(workers) : WaitLinkFetchFails(w)
    \/ \E w \in BagToSet(workers) : \E f \in ServiceFormats(w.url) : WaitLinkPublish(w, f)
    \/ \E w \in BagToSet(workers) : WaitLinkFlush(w)
    \/ \E i \in DOMAIN afterq : RunReset(i)
    \/ \E i \in DOMAIN afterq, g \in BOOLEAN : RunUpd(i, g)
    \/ \E i \in DOMAIN afterq : RunRefresh(i)
    \/ \E i \in DOMAIN afterq : RunUfd(i)
    \/ \E i \in DOMAIN afterq : RunSize(i)
    \/ \E k \in BagToSet(est) : EstimateFails(k)
    \/ \E k \in BagToSet(est), r \in SizeResults : EstimateReturns(k, r)
    \/ \E b \in BOOLEAN : ClickKind(b)
    \/ \E l \in AllLabels : SelectQuality(l)

Spec == Init /\ [][Next]_vars

\* ----------------------------------------- the classification specification
\* Every text of at most MaxTextLen tokens, just typed into the empty entry: its
\* wait_link thread has been started and has not run yet. The handlers that set
\* link_status are followed.
AllTexts == UNION {[1..n -> Tokens] : n \in 0..MaxTextLen}

InitClassify ==
    /\ in_link_entry \in AllTexts
    /\ is_mp3 = TRUE
    /\ quality_var = DefaultLabel(TRUE)
    /\ menu = PlainMenu(TRUE)
    /\ current_info = NoInfo
    /\ size_cache = {}
    /\ filesize_label = LblBlank
    /\ video_title = <<>>
    /\ thumbnail = <<>>
    /\ link_status = StWaiting
    /\ afterq = <<>>
    /\ workers = One(Worker(in_link_entry, "start", TRUE, <<>>))
    /\ est = EmptyBag
    /\ edits = 1
    /\ clicks = 0
    /\ latestOutcome = "pending"
    /\ prevLink = <<>>
    /\ statusHandlers = TRUE
    /\ estLimit = MaxEst
    /\ DlIdle
    /\ V1Idle

NextClassify ==
    \/ \E w \in BagToSet(workers) : WaitLinkClassify(w)
    \/ \E i \in DOMAIN afterq : RunStatus(i)
    \/ \E i \in DOMAIN afterq : RunReset(i)

SpecClassify == InitClassify /\ [][NextClassify]_vars

\* The same with a Tk main loop that runs every handler once it is due, and a
\* thread that runs.
ClassifyLoop ==
    \/ \E i \in DOMAIN afterq : RunStatus(i)
    \/ \E i \in DOMAIN afterq : RunReset(i)
ClassifyThread == \E w \in BagToSet(workers) : WaitLinkClassify(w)

SpecRevert ==
    InitClassify /\ [][ClassifyThread \/ ClassifyLoop]_vars
        /\ WF_vars(ClassifyThread) /\ WF_vars(ClassifyLoop)

\* ------------------------------------------------- the status specification
\* The program of Spec with the handlers that set link_status followed: the
\* user edits the link entry, the wait_link threads run, the queries return or
\* raise, and the Tk main loop runs the handlers.
StatusTexts == {EmptyText, BadText, YtA}

InitStatus ==
    /\ in_link_entry = EmptyText
    /\ is_mp3 = TRUE
    /\ quality_var = DefaultLabel(TRUE)
    /\ menu = PlainMenu(TRUE)
    /\ current_info = NoInfo
    /\ size_cache = {}
    /\ filesize_label = LblBlank
    /\ video_title = <<>>
    /\ thumbnail = <<>>
    /\ link_status = StWaiting
    /\ afterq = <<>>
    /\ workers = EmptyBag
    /\ est = EmptyBag
    /\ edits = 0
    /\ clicks = 0
    /\ latestOutcome = "none"
    /\ prevLink = <<>>
    /\ statusHandlers = TRUE
    /\ estLimit = MaxEst
    /\ DlIdle
    /\ V1Idle

NextStatus ==
    \/ \E t \in StatusTexts : Edit(t)
    \/ \E w \in BagToSet(workers) : WaitLinkClassify(w)
    \/ \E w \in BagToSet(workers) : WaitLinkFetchFails(w)
    \/ \E w \in BagToSet(workers) : \E f \in ServiceFormats(w.url) : WaitLinkPublish(w, f)
    \/ \E w \in BagToSet(workers) : WaitLinkFlush(w)
    \/ \E i \in DOMAIN afterq : RunStatus(i)
    \/ \E i \in DOMAIN afterq : RunReset(i)
    \/ \E i \in DOMAIN afterq : RunUpd(i, TRUE)
    \/ \E i \in DOMAIN afterq : RunRefresh(i)
    \/ \E i \in DOMAIN afterq : RunUfd(i)
    \/ \E i \in DOMAIN afterq : RunSize(i)
    \/ \E k \in BagToSet(est) : EstimateFails(k)

SpecStatus == InitStatus /\ [][NextStatus]_vars

\* ------------------------------------------------- the gating specification
\* The metadata of a link has just been stored and the handlers of step 8 of
\* wait_link are registered; the service may have answered with any list of at
\* most MaxFormats formats, and the user may have chosen any kind and quality
\* before entering the link.
FormatSet ==
    {Fmt(v, a, h) : v \in {"none", "avc1", "missing"}, a \in {Missing, 150, 256, 320},
                    h \in {Missing, 1080}}
AllFormatLists == UNION {[1..n -> FormatSet] : n \in 0..MaxFormats}
\* update_quality_options starts at most three estimation threads, and
\* _refresh_quality_menu at most two; the gating specification follows them all.
GateEstLimit == 3 * (MaxClicks + 1)

InitGate ==
    /\ in_link_entry = YtA
    /\ is_mp3 \in BOOLEAN
    /\ quality_var \in MenuLabels(PlainMenu(is_mp3))
    /\ menu = PlainMenu(is_mp3)
    /\ current_info \in {MkInfo(YtA, fs) : fs \in AllFormatLists}
    /\ size_cache = {}
    /\ filesize_label = LblBlank
    /\ video_title = YtA
    /\ thumbnail = YtA
    /\ link_status = StWaiting
    /\ afterq = << RefreshEntry, UfdEntry >>
    /\ workers = EmptyBag
    /\ est = EmptyBag
    /\ edits = 1
    /\ clicks = 0
    /\ latestOutcome = "ok"
    /\ prevLink = <<>>
    /\ statusHandlers = FALSE
    /\ estLimit = GateEstLimit
    /\ DlIdle
    /\ V1Idle

NextGate ==
    \/ \E i \in DOMAIN afterq : RunRefresh(i)
    \/ \E b \in BOOLEAN : ClickKind(b)

SpecGate == InitGate /\ [][NextGate]_vars

\* ---------------------------------------------- the estimation specification
\* A link has been fetched, gating has moved the selection where it had to, the
\* size of the selection has been estimated and shown, and nothing is running.
\* The user changes the kind or the quality or clears the link; every query of
\* an estimation thread returns or raises, and the Tk main loop runs every
\* handler that is due.
InitEstimate ==
    \E url \in {YtA, YtB} : \E fs \in ServiceFormats(url) :
        /\ in_link_entry = url
        /\ is_mp3 = TRUE
        /\ menu = GateMenu(fs, TRUE)
        /\ quality_var = (IF DefaultLabel(TRUE) \in EnabledLabels(menu)
                          THEN DefaultLabel(TRUE) ELSE FirstEnabled(menu))
        /\ current_info = MkInfo(url, fs)
        /\ size_cache = CachePut({}, Key(url, TRUE, quality_var), 1)
        /\ filesize_label = LblSize(1)
        /\ video_title = url
        /\ thumbnail = url
        /\ link_status = StWaiting
        /\ afterq = <<>>
        /\ workers = EmptyBag
        /\ est = EmptyBag
        /\ edits = 1
        /\ clicks = 0
        /\ latestOutcome = "ok"
        /\ prevLink = <<>>
        /\ statusHandlers = FALSE
        /\ estLimit = GateEstLimit
        /\ DlIdle
        /\ V1Idle

EstimateDone ==
    \/ \E k \in BagToSet(est) : EstimateFails(k)
    \/ \E k \in BagToSet(est), r \in SizeResults : EstimateReturns(k, r)

MainLoop ==
    \/ \E i \in DOMAIN afterq : RunReset(i)
    \/ \E i \in DOMAIN afterq : RunSize(i)

NextEstimate ==
    \/ Edit(EmptyText)
    \/ \E w \in BagToSet(workers) : WaitLinkClassify(w)
    \/ \E b \in BOOLEAN : ClickKind(b)
    \/ \E l \in AllLabels : SelectQuality(l)
    \/ EstimateDone
    \/ MainLoop

SpecEstimate ==
    InitEstimate /\ [][NextEstimate]_vars /\ WF_vars(EstimateDone) /\ WF_vars(MainLoop)

\* ---------------------------------------------------- the size specification
\* One estimation thread, or two for the same key, are waiting for their query,
\* for either link, either kind and any enabled quality; the service answers
\* with any result of at most MaxParts parts, each exact size missing, 0 or a
\* number and each approximate size missing or a number, or the query raises.
SizeValues == {Missing, 0, 1}
ApproxValues == {Missing, 1}
AllParts == {Part(f, a) : f \in SizeValues, a \in ApproxValues}
AllSizeResults ==
    {[requested |-> FALSE, parts |-> << p >>] : p \in AllParts}
        \cup {[requested |-> TRUE, parts |-> ps] :
                 ps \in UNION {[1..n -> AllParts] : n \in 0..MaxParts}}

InitSize ==
    \E url \in {YtA, YtB} : \E fs \in ServiceFormats(url) :
        /\ in_link_entry = url
        /\ is_mp3 \in BOOLEAN
        /\ menu = GateMenu(fs, is_mp3)
        /\ quality_var \in EnabledLabels(menu)
        /\ current_info = MkInfo(url, fs)
        /\ size_cache = {}
        /\ filesize_label = LblEstimating
        /\ video_title = url
        /\ thumbnail = url
        /\ link_status = StWaiting
        /\ afterq = <<>>
        /\ workers = EmptyBag
        /\ \E n \in {1, 2} : est = [k \in {Key(url, is_mp3, quality_var)} |-> n]
        /\ edits = 1
        /\ clicks = 0
        /\ latestOutcome = "ok"
        /\ prevLink = <<>>
        /\ statusHandlers = FALSE
        /\ estLimit = MaxEst
        /\ DlIdle
        /\ V1Idle

NextSize ==
    \/ \E k \in BagToSet(est) : EstimateFails(k)
    \/ \E k \in BagToSet(est), r \in AllSizeResults : EstimateReturns(k, r)
    \/ \E i \in DOMAIN afterq : RunSize(i)

SpecSize == InitSize /\ [][NextSize]_vars

\* The same threads, with the answers of the main specification, and a user
\* who selects a quality (the selected one again, or another).
NextRetry ==
    \/ \E k \in BagToSet(est) : EstimateFails(k)
    \/ \E k \in BagToSet(est), r \in SizeResults : EstimateReturns(k, r)
    \/ \E i \in DOMAIN afterq : RunSize(i)
    \/ \E l \in AllLabels : SelectQuality(l)

SpecRetry == InitSize /\ [][NextRetry]_vars

\* -------------------------------------------------------- the download side
\* Percent strings are sequences of characters. The classes of the pattern of
\* _strip_ansi, \x1B\[[0-?]*[ -/]*[@-~], on the characters that occur here:
\* [0-?] holds the digits and ';', [ -/] holds ' ' and '%', [@-~] holds the
\* letters and '['.
Esc == "ESC"
ParamChars == {"0", "2", "4", "9", ";"}
InterChars == {SpaceTok, "%"}
FinalChars == {"m", "["}

\* The first position from i on whose character is not in the class.
RECURSIVE SkipWhile(_, _, _)
SkipWhile(s, i, class) ==
    IF i <= Len(s) /\ s[i] \in class THEN SkipWhile(s, i + 1, class) ELSE i

\* The position where the match of the pattern that starts at i ends, 0 when
\* the pattern does not match at i. The three classes are disjoint, so the
\* greedy match is the only one.
MatchEnd(s, i) ==
    IF i + 1 <= Len(s) /\ s[i] = Esc /\ s[i + 1] = "["
    THEN LET k == SkipWhile(s, SkipWhile(s, i + 2, ParamChars), InterChars)
         IN  IF k <= Len(s) /\ s[k] \in FinalChars THEN k ELSE 0
    ELSE 0

\* ansi_re.sub('', s): one pass from the left over the matches that do not
\* overlap.
RECURSIVE StripFrom(_, _)
StripFrom(s, i) ==
    IF i > Len(s) THEN <<>>
    ELSE IF MatchEnd(s, i) > 0 THEN StripFrom(s, MatchEnd(s, i) + 1)
    ELSE << s[i] >> \o StripFrom(s, i + 1)

_strip_ansi(s) == StripFrom(s, 1)

\* The text yt_dlp_hook builds (the file name is left out).
HookText(status, raw) ==
    IF status = "downloading" THEN << "Downloading" >> \o _strip_ansi(Strip(raw))
    ELSE << "Finished" >>

DlStatusEntry(text) == Entry("dlstatus", 0, "", text, NoKey, 0)
\* The handler of a progress event; n is the position of the event among the
\* events of its download (history).
ProgressEntry(text, seq) == Entry("dlstatus", 0, "", text, NoKey, seq)
\* What is recorded for an event the hook returns on without a handler.
NoText == << "none" >>
IdleEntry == Entry("idle", 0, "", <<>>, NoKey, 0)

\* Everything of the link side but the after queue.
uivars == << in_link_entry, is_mp3, quality_var, menu, current_info, size_cache,
            filesize_label, video_title, thumbnail, link_status, workers, est,
            edits, clicks, latestOutcome, prevLink, statusHandlers, estLimit >>

\* height_map.get(quality, 720), in _estimate_and_update_size and in convert_now.
HeightMap(quality) ==
    CASE quality = "480p" -> 480
      [] quality = "720p" -> 720
      [] quality = "1080p" -> 1080
      [] quality = "4K" -> 2160
      [] OTHER -> 720

\* The 'format' option of the size query (lines 1153 to 1166): the pieces of the
\* string, the height as the number the f-string formats.
EstimateFormat(mp3, quality) ==
    IF mp3 THEN << "bestaudio/best" >>
    ELSE << "bestvideo[height<=", HeightMap(quality), "]+bestaudio/best" >>

\* DownloadFormat with the default height for every quality.
DownloadFormatDefaultHeight(mp3, quality) ==
    IF mp3 THEN << "bestaudio/best" >>
    ELSE << "bestvideo[height<=", 720, "]+bestaudio/best" >>

\* The 'format' option of the download (lines 1285 to 1310).
DownloadFormat(mp3, quality) ==
    IF mp3 THEN << "bestaudio/best" >>
    ELSE << "bestvideo[height<=", HeightMap(quality), "]+bestaudio/best" >>

\* The kind, the quality and the format option a convert_now thread works with;
\* NoOpts before it has read them.
NoOpts == [mp3 |-> TRUE, q |-> "", format |-> <<>>]
ConvertOpts(mp3, quality) ==
    [mp3 |-> mp3, q |-> quality, format |-> DownloadFormat(mp3, quality)]

\* A convert_now thread: its position ("done" once it has ended), its options,
\* the progress events of its download so far, the percent string of the last
\* one and the text the hook built for each (history), and how the download
\* ended.
Convert(pc, events, ok) ==
    [pc |-> pc, events |-> events, ok |-> ok, last |-> <<>>, sent |-> <<>>,
     opts |-> NoOpts]
Move(c, d) == converts' = (converts (-) One(c)) (+) One(d)

\* A click on Convert, which is possible while the button is enabled:
\* start_convert starts a convert_now thread.
StartConvert ==
    /\ attempts < MaxAttempts
    /\ widgets = "normal"
    /\ attempts' = attempts + 1
    /\ converts' = converts (+) One(Convert("begin", 0, TRUE))
    /\ UNCHANGED << uivars, v1vars, afterq, status_text, download_status, widgets,
                    revealed, resets >>

\* convert_now up to the call of ydl.download (lines 1267 to 1311).
ConvertBegin(c) ==
    /\ c.pc = "begin"
    /\ status_text' = "Converting..."
    /\ widgets' = "disabled"
    /\ Move(c, [c EXCEPT !.pc = "download", !.opts = ConvertOpts(is_mp3, quality_var)])
    /\ UNCHANGED << uivars, v1vars, afterq, download_status, revealed, resets, attempts >>

\* yt-dlp calls the progress hook of a running download.
yt_dlp_hook(c, status, raw) ==
    /\ c.pc = "download"
    /\ c.events < MaxEvents
    /\ Move(c, [c EXCEPT !.events = c.events + 1, !.last = raw,
                          !.sent = Append(c.sent, IF status \in {"downloading", "finished"}
                                                  THEN HookText(status, raw)
                                                  ELSE NoText)])
    /\ afterq' = IF status \in {"downloading", "finished"}
                 THEN Append(afterq, ProgressEntry(HookText(status, raw), c.events + 1))
                 ELSE afterq
    /\ UNCHANGED << uivars, v1vars, status_text, download_status, widgets, revealed,
                    resets, attempts >>

\* ydl.download returns, or raises and the error dialog is dismissed.
DownloadEnds(c, ok) ==
    /\ c.pc = "download"
    /\ Move(c, [c EXCEPT !.pc = "restore", !.ok = ok])
    /\ UNCHANGED << uivars, v1vars, afterq, status_text, download_status, widgets,
                    revealed, resets, attempts >>

\* ConvertRestore without the call of change_widgets('on') after a failure.
ConvertRestoreOnSuccess(c) ==
    /\ c.pc = "restore"
    /\ widgets' = IF c.ok THEN "normal" ELSE widgets
    /\ status_text' = "Done!"
    /\ revealed' = revealed + 1
    /\ Move(c, [c EXCEPT !.pc = "done"])
    /\ resets' = resets (+) One("sleep")
    /\ UNCHANGED << uivars, v1vars, afterq, download_status, attempts >>

\* "Restore UI" of convert_now (lines 1318 to 1323).
ConvertRestore(c) ==
    /\ c.pc = "restore"
    /\ widgets' = "normal"
    /\ status_text' = "Done!"
    /\ revealed' = revealed + 1
    /\ Move(c, [c EXCEPT !.pc = "done"])
    /\ resets' = resets (+) One("sleep")
    /\ UNCHANGED << uivars, v1vars, afterq, download_status, attempts >>

\* reset_dl_status without the handler that sets 'Idle'.
ResetIdleDropped ==
    /\ BagIn("idle", resets)
    /\ resets' = resets (-) One("idle")
    /\ UNCHANGED << uivars, v1vars, afterq, status_text, download_status, widgets,
                    revealed, converts, attempts >>

\* reset_dl_status: after time.sleep(5) it registers the handler that clears the
\* download status ...
ResetClear ==
    /\ BagIn("sleep", resets)
    /\ resets' = (resets (-) One("sleep")) (+) One("idle")
    /\ afterq' = Append(afterq, DlStatusEntry(<<>>))
    /\ UNCHANGED << uivars, v1vars, status_text, download_status, widgets, revealed,
                    converts, attempts >>

\* ... and then the handler that sets 'Idle'.
ResetIdle ==
    /\ BagIn("idle", resets)
    /\ resets' = resets (-) One("idle")
    /\ afterq' = Append(afterq, IdleEntry)
    /\ UNCHANGED << uivars, v1vars, status_text, download_status, widgets, revealed,
                    converts, attempts >>

\* The handlers of yt_dlp_hook and of reset_dl_status.
RunDlStatus(i) ==
    /\ Runnable(i)
    /\ afterq[i].h = "dlstatus"
    /\ download_status' = afterq[i].t
    /\ afterq' = RemoveAt(afterq, i)
    /\ UNCHANGED << uivars, v1vars, status_text, widgets, revealed, converts, resets,
                    attempts >>

RunIdle(i) ==
    /\ Runnable(i)
    /\ afterq[i].h = "idle"
    /\ status_text' = "Idle"
    /\ afterq' = RemoveAt(afterq, i)
    /\ UNCHANGED << uivars, v1vars, download_status, widgets, revealed, converts, resets,
                    attempts >>

\* ---------------------------------------------------- the hook specification
\* A download is running; yt-dlp reports its first progress event with any
\* status and any percent string of at most MaxPctLen characters, or the string
\* ESC[0;94m42%ESC[0m.
PctChars == {Esc, "[", "4", "%", "m", SpaceTok}
ExamplePct == << Esc, "[", "0", ";", "9", "4", "m", "4", "2", "%", Esc, "[", "0", "m" >>
AllPct == UNION {[1..n -> PctChars] : n \in 0..MaxPctLen} \cup {ExamplePct}

InitHook ==
    /\ LinkIdle
    /\ V1Idle
    /\ status_text = "Converting..."
    /\ download_status = <<>>
    /\ widgets = "disabled"
    /\ revealed = 0
    /\ converts = One([Convert("download", 0, TRUE)
                          EXCEPT !.opts = ConvertOpts(is_mp3, quality_var)])
    /\ resets = EmptyBag
    /\ attempts = 1

NextHook ==
    \/ \E c \in {d \in BagToSet(converts) : d.events = 0} :
          \E st \in {"downloading", "finished", "error"}, raw \in AllPct :
              yt_dlp_hook(c, st, raw)
    \/ \E i \in DOMAIN afterq : RunDlStatus(i)

SpecHook == InitHook /\ [][NextHook]_vars

\* -------------------------------------------------- the format specification
\* A link has been fetched, with either kind and any quality of the kind that is
\* enabled selected. The user clicks a kind or a quality, which starts size
\* estimation threads, and clicks Convert; the download returns.
InitFormat ==
    \E url \in {YtA, YtB} : \E fs \in ServiceFormats(url) :
        /\ in_link_entry = url
        /\ is_mp3 \in BOOLEAN
        /\ menu = GateMenu(fs, is_mp3)
        /\ quality_var \in EnabledLabels(menu)
        /\ current_info = MkInfo(url, fs)
        /\ size_cache = {}
        /\ filesize_label = LblBlank
        /\ video_title = url
        /\ thumbnail = url
        /\ link_status = StWaiting
        /\ afterq = <<>>
        /\ workers = EmptyBag
        /\ est = EmptyBag
        /\ edits = 1
        /\ clicks = 0
        /\ latestOutcome = "ok"
        /\ prevLink = <<>>
        /\ statusHandlers = FALSE
        /\ estLimit = GateEstLimit
        /\ DlIdle
        /\ V1Idle

NextFormat ==
    \/ \E b \in BOOLEAN : ClickKind(b)
    \/ \E l \in AllLabels : SelectQuality(l)
    \/ StartConvert
    \/ \E c \in BagToSet(converts) : ConvertBegin(c)
    \/ \E c \in BagToSet(converts) : DownloadEnds(c, TRUE)
    \/ \E c \in BagToSet(converts) : ConvertRestore(c)

SpecFormat == InitFormat /\ [][NextFormat]_vars

\* ------------------------------------------------ the progress specification
\* A download is running; yt-dlp reports up to MaxEvents progress events, each
\* with any status and one of four percent strings, and the Tk main loop runs
\* the handlers.
ProgressPcts == {<< "4", "%" >>, << "4", "4", "%" >>, << SpaceTok, "%" >>, ExamplePct}

NextProgress ==
    \/ \E c \in BagToSet(converts) :
          \E st \in {"downloading", "finished", "error"}, raw \in ProgressPcts :
              yt_dlp_hook(c, st, raw)
    \/ \E i \in DOMAIN afterq : RunDlStatus(i)

SpecProgress == InitHook /\ [][NextProgress]_vars

\* ------------------------------------------------ the download specification
\* The user clicks Convert while the button is enabled; a download reports
\* progress and returns or raises; a reset_dl_status thread wakes up after its
\* five seconds, and the Tk main loop runs every handler that is due.
Running == {c \in BagToSet(converts) : c.pc # "done"}
Ended ==
    BagCardinality([c \in {d \in BagToSet(converts) : d.pc = "done"}
                       |-> CopiesIn(c, converts)])

ResetWakes == ResetClear \/ ResetIdle

DlLoop ==
    \/ \E i \in DOMAIN afterq : RunDlStatus(i)
    \/ \E i \in DOMAIN afterq : RunIdle(i)

NextDownload ==
    \/ StartConvert
    \/ \E c \in BagToSet(converts) : ConvertBegin(c)
    \/ \E c \in BagToSet(converts) :
          yt_dlp_hook(c, "downloading", ExamplePct)
    \/ \E c \in BagToSet(converts), ok \in BOOLEAN : DownloadEnds(c, ok)
    \/ \E c \in BagToSet(converts) : ConvertRestore(c)
    \/ ResetWakes
    \/ DlLoop

SpecDownload ==
    Init /\ [][NextDownload]_vars /\ WF_vars(ResetWakes) /\ WF_vars(DlLoop)

\* ------------------------------------------- v1.1.1: download_file (pytube)
\* The titles of the videos: one of them has a character that a file name
\* cannot hold, one of them has a dot.
V1Titles == { << "a" >>, << "a", "?" >>, << "a", ".", "b" >> }

\* The container of the stream start_download picks: the best audio stream is
\* mp4 or webm, the progressive stream is filtered to mp4.
Subtypes(mode) == IF mode = "mp3" THEN {"mp4", "webm"} ELSE {"mp4"}

\* f'{directory}\\{streams_object.title}.{mode}'
to_check(title, mode) == title \o << ".", mode >>

\* The path streams_object.download returns: the title without the characters
\* a file name cannot hold, and the container of the stream.
default_filename(title, subtype) ==
    SelectSeq(title, LAMBDA ch : ch # "?") \o << ".", subtype >>

\* os.path.splitext(temp)[0]: the path up to its last dot.
splitext(path) ==
    LET dots == {i \in DOMAIN path : path[i] = "."}
    IN  IF dots = {} THEN path
        ELSE SubSeq(path, 1, (CHOOSE i \in dots : \A j \in dots : j <= i) - 1)

\* output = base + '.' + mode
OutputOf(temp, mode) == splitext(temp) \o << ".", mode >>

\* download_status_update: the text the label gets (cur: the text it has).
download_status_update(cur, state, string) ==
    CASE state = 0 -> << "Downloading " >> \o string
      [] state = 1 -> << "Downloaded @ " >> \o string
      [] state = 2 -> << "File exists @ " >> \o string
      [] OTHER -> cur

\* start_download calls download_file for a stream (for each video of a
\* playlist in turn).
CallDownloadFile(title, subtype, mode) ==
    /\ call.pc = "idle"
    /\ call.calls < MaxCalls
    /\ call' = [NoCall(call.calls + 1) EXCEPT !.pc = "check", !.title = title,
                                              !.subtype = subtype, !.mode = mode]
    /\ UNCHANGED << uivars, afterq, dlvars, files >>

\* DfCheck taking the download branch whatever the directory holds.
DfCheckAlwaysDownloads ==
    /\ call.pc = "check"
    /\ download_status' = download_status_update(download_status, 0, call.title)
    /\ call' = [call EXCEPT !.pc = "download"]
    /\ UNCHANGED << uivars, afterq, status_text, widgets, revealed, converts,
                    resets, attempts, files >>

\* download_file, the test of os.path.isfile(to_check) and the status of the
\* branch taken.
DfCheck ==
    /\ call.pc = "check"
    /\ IF to_check(call.title, call.mode) \in files
       THEN /\ download_status' = download_status_update(download_status, 2, call.title)
            /\ call' = [call EXCEPT !.pc = "end"]
       ELSE /\ download_status' = download_status_update(download_status, 0, call.title)
            /\ call' = [call EXCEPT !.pc = "download"]
    /\ UNCHANGED << uivars, afterq, status_text, widgets, revealed, converts,
                    resets, attempts, files >>

\* streams_object.download returns the path of the file it wrote, or raises.
DfDownload(ok) ==
    /\ call.pc = "download"
    /\ IF ok
       THEN LET temp == default_filename(call.title, call.subtype)
            IN  /\ files' = files \cup {temp}
                /\ call' = [call EXCEPT !.temp = temp, !.transferred = TRUE,
                                        !.pc = IF call.mode = "mp3" THEN "rename"
                                               ELSE "report"]
       ELSE /\ call' = [call EXCEPT !.pc = "raised"]
            /\ UNCHANGED files
    /\ UNCHANGED << uivars, afterq, dlvars >>

\* os.rename(temp, output) for mp3: where output exists the call replaces it
\* (POSIX) or raises (Windows).
DfRename(replace) ==
    /\ call.pc = "rename"
    /\ LET output == OutputOf(call.temp, call.mode)
       IN  IF output \in files /\ ~replace
           THEN /\ call' = [call EXCEPT !.pc = "raised"]
                /\ UNCHANGED files
           ELSE /\ files' = (files \ {call.temp}) \cup {output}
                /\ call' = [call EXCEPT !.renamed = TRUE, !.pc = "report"]
    /\ UNCHANGED << uivars, afterq, dlvars >>

\* self.download_status_update(1, output)
DfReport ==
    /\ call.pc = "report"
    /\ download_status' = download_status_update(download_status, 1,
                                                 OutputOf(call.temp, call.mode))
    /\ call' = [call EXCEPT !.pc = "end"]
    /\ UNCHANGED << uivars, afterq, status_text, widgets, revealed, converts,
                    resets, attempts, files >>

\* download_file returns, or its exception reaches start_download.
DfReturn ==
    /\ call.pc \in {"end", "raised"}
    /\ call' = NoCall(call.calls)
    /\ UNCHANGED << uivars, afterq, dlvars, files >>

\* The directory holds any of two files when the program starts.
InitV1 ==
    /\ LinkIdle
    /\ DlIdle
    /\ files \in SUBSET { << "a", ".", "mp3" >>, << "a", "?", ".", "mp4" >> }
    /\ call = NoCall(0)

NextV1 ==
    \/ \E title \in V1Titles, mode \in {"mp3", "mp4"} :
          \E subtype \in Subtypes(mode) : CallDownloadFile(title, subtype, mode)
    \/ DfCheck
    \/ \E ok \in BOOLEAN : DfDownload(ok)
    \/ \E replace \in BOOLEAN : DfRename(replace)
    \/ DfReport
    \/ DfReturn

SpecV1 == InitV1 /\ [][NextV1]_vars

\* ------------------------------------------------------------------ claims
\* No thread is running and no handler is waiting.
Quiescent == workers = EmptyBag /\ est = EmptyBag /\ afterq = <<>>

\* The key of the current selection: the link text, the kind, the quality.
CurrentKey == Key(Strip(in_link_entry), is_mp3, quality_var)

\* C1: once all threads and handlers have run and the fetch for the text of the
\* latest edit has succeeded, the metadata that is stored and the title that is
\* displayed are those fetched for that text, whatever the order in which the
\* fetches completed (fetch A started, fetch B started, B completes, A completes
\* leaves the metadata of B).
C1_LatestFetchWins ==
    (Quiescent /\ latestOutcome = "ok" /\ current_info.present)
        => /\ current_info.src = in_link_entry
           /\ video_title = in_link_entry

\* C2: the handler that shows a computed estimate runs only with the key of
\* the estimate equal to the current link text, kind and quality.
C2_OnlyCurrentKeyShown ==
    [][\A i \in DOMAIN afterq :
          (RunSize(i) /\ afterq[i].s = "Estimated size") => afterq[i].k = CurrentKey]_vars

\* C3: at most one size estimation thread is running for a key.
C3_OneInFlightPerKey == \A k \in BagToSet(est) : CopiesIn(k, est) <= 1

\* A step of a handler that ends in update_filesize_display.
EstimateRequest ==
    \/ \E i \in DOMAIN afterq : RunUfd(i)
    \/ /\ current_info.present
       /\ \/ \E i \in DOMAIN afterq : RunRefresh(i)
          \/ \E l \in AllLabels : SelectQuality(l)
          \/ \E b \in BOOLEAN : ClickKind(b)

\* C4: a request for a key that is in the cache shows the cached value and
\* starts no thread, and the value cached for a key stays the same for as long
\* as the key stays in the cache (so every later request shows that value).
C4_HitShowsSameValue ==
    [][/\ (EstimateRequest /\ CurrentKey' \in CacheKeys(size_cache))
            => /\ filesize_label' = LblSize(CacheGet(size_cache, CurrentKey'))
               /\ est' = est
       /\ \A k \in CacheKeys(size_cache) \cap CacheKeys(size_cache') :
              CacheGet(size_cache', k) = CacheGet(size_cache, k)]_vars

\* C5: once a fetch has replaced the metadata of a link and flushed the cache,
\* the cache holds no entry of that link until the link is entered again.
C5_NoEntryOfReplacedLink ==
    prevLink # <<>> => \A k \in CacheKeys(size_cache) : k.url # prevLink

\* C6: when the fetch for the latest text fails while the metadata of an earlier
\* link is stored and no other fetch is running, the failing step clears the
\* metadata display: it registers the handler that blanks the title and the
\* thumbnail and drops the stored metadata (reset_video_info_panel).
C6_FailedFetchClears ==
    [][\A w \in BagToSet(workers) :
          (WaitLinkFetchFails(w) /\ workers = One(w) /\ current_info.present)
              => \E i \in DOMAIN afterq' : i > Len(afterq) /\ afterq'[i].h = "reset"]_vars

\* C9: when the text of the latest edit is empty or invalid and all threads and
\* handlers have run, no metadata is stored and the title, the thumbnail and the
\* size label are blank.
C9_InvalidTextLeavesNothing ==
    (Quiescent /\ Classify(in_link_entry) # "Valid")
        => /\ ~current_info.present
           /\ video_title = <<>>
           /\ thumbnail = <<>>
           /\ filesize_label = LblBlank

\* A host the documentation of _is_youtube_url calls a YouTube host: youtube.com
\* or youtu.be, with or without "www." in front.
SupportedHost(net) ==
    /\ net # <<>>
    /\ net[Len(net)] \in {YoutubeCom, YoutuBe}
    /\ \A i \in 1..(Len(net) - 1) : net[i] = "www."

\* The class the specification gives a text.
LinkClass(t) ==
    IF t = <<>> THEN "Empty"
    ELSE IF ~ValidatorsUrl(t) THEN "InvalidSyntax"
    ELSE IF ~SupportedHost(Netloc(t)) THEN "UnsupportedPlatform"
    ELSE "Valid"

\* The thread of the text has classified it and every handler registered
\* without a delay has run.
Settled ==
    /\ \A w \in BagToSet(workers) : w.pc # "start"
    /\ \A i \in DOMAIN afterq : afterq[i].delay > 0

\* C7: the link status the classification of a text leads to is the one of the
\* class of the text: 'Waiting for link...' for an empty text, the invalid-link
\* message for a text that is no well-formed URL, the not-YouTube message for a
\* well-formed URL whose host is no supported platform, and 'Link correct...'
\* followed by the metadata query for every other text (each message until its
\* delayed successor replaces it).
C7_ClassificationOrder ==
    Settled =>
        LET class == LinkClass(in_link_entry)
            fetching == \E w \in BagToSet(workers) : w.pc = "query"
        IN  /\ class = "Empty" => link_status = StWaiting /\ ~fetching
            /\ class = "InvalidSyntax"
                 => link_status = (IF afterq = <<>> THEN StWaiting ELSE StInvalid) /\ ~fetching
            /\ class = "UnsupportedPlatform"
                 => link_status = (IF afterq = <<>> THEN StWaiting ELSE StNotYoutube)
                    /\ ~fetching
            /\ class = "Valid"
                 => link_status = (IF afterq = <<>> THEN StFetching ELSE StCorrect) /\ fetching

ReportedMax(values) == CHOOSE m \in values \cup {0} : \A x \in values \cup {0} : x <= m
MaxAbrOf(formats) ==
    ReportedMax({formats[i].abr : i \in {j \in DOMAIN formats : formats[j].vcodec = "none"}})
MaxHeightOf(formats) ==
    ReportedMax({formats[i].height : i \in {j \in DOMAIN formats : formats[j].vcodec # "none"}})
OptValue(label) ==
    LET all == AudioOpts \o VideoOpts
    IN  all[CHOOSE i \in DOMAIN all : all[i].label = label].val

\* _refresh_quality_menu has built the menu for the stored metadata.
GatingRan == clicks > 0 \/ \A i \in DOMAIN afterq : afterq[i].h # "refresh"

\* C10: after gating, the menu holds the options of the current kind, and an
\* option is enabled exactly when its value is at most the largest audio
\* bitrate of the audio-only formats (audio) or the largest height of the other
\* formats (video), 0 when there are none; a largest bitrate of 150 enables
\* exactly Low, a largest height of 1080 exactly 480p, 720p and 1080p.
C10_GatingByMaximum ==
    GatingRan =>
        LET max == IF is_mp3 THEN MaxAbrOf(current_info.formats)
                             ELSE MaxHeightOf(current_info.formats)
        IN  /\ Len(menu) = Len(Opts(is_mp3))
            /\ \A i \in DOMAIN menu :
                  /\ menu[i].label = Opts(is_mp3)[i].label
                  /\ menu[i].state = "normal" <=> OptValue(menu[i].label) <= max
            /\ (is_mp3 /\ max = 150) => EnabledLabels(menu) = {"Low"}
            /\ (~is_mp3 /\ max = 1080) => EnabledLabels(menu) = {"480p", "720p", "1080p"}

C10_Witness ==
    /\ GatingRan
    /\ is_mp3
    /\ MaxAbrOf(current_info.formats) = 150
    /\ EnabledLabels(menu) = {"Low"}

\* The options of a kind whose value is at most the maximum the formats report.
Supported(kind, formats) ==
    LET max == IF kind THEN MaxAbrOf(formats) ELSE MaxHeightOf(formats)
    IN  {l \in MenuLabels(PlainMenu(kind)) : OptValue(l) <= max}
\* The supported option of the lowest tier.
LowestOf(sup) == CHOOSE l \in sup : \A m \in sup : OptValue(l) <= OptValue(m)

\* C11: a run of gating (the handler wait_link registers, or the one at the end
\* of a change of kind, where the selection is the default of the new kind)
\* moves a selection that is not supported to the lowest supported option when
\* there is one, and leaves a supported selection as it is.
C11_FallbackToLowest ==
    [][/\ \A i \in DOMAIN afterq :
             RunRefresh(i) =>
                 LET sup == Supported(is_mp3, current_info.formats)
                 IN  /\ (quality_var \notin sup /\ sup # {}) => quality_var' = LowestOf(sup)
                     /\ quality_var \in sup => quality_var' = quality_var
       /\ \A b \in BOOLEAN :
             ClickKind(b) =>
                 LET sup == Supported(b, current_info.formats)
                 IN  /\ (DefaultLabel(b) \notin sup /\ sup # {}) => quality_var' = LowestOf(sup)
                     /\ DefaultLabel(b) \in sup => quality_var' = DefaultLabel(b)]_vars

\* The kind was changed and gating moved the selection from the default of the
\* kind, which the metadata does not support, to the lowest supported option.
C11_Witness ==
    /\ clicks > 0
    /\ Supported(is_mp3, current_info.formats) # {}
    /\ DefaultLabel(is_mp3) \notin Supported(is_mp3, current_info.formats)
    /\ quality_var = LowestOf(Supported(is_mp3, current_info.formats))

\* The supported option of the highest tier.
HighestOf(sup) == CHOOSE l \in sup : \A m \in sup : OptValue(l) >= OptValue(m)

\* C12: when gating runs for newly fetched metadata whose largest audio bitrate
\* is below 320 while the kind is audio and High is selected, and the metadata
\* supports some option, the selection moves to the highest supported option.
C12_FallbackToHighest ==
    [][\A i \in DOMAIN afterq :
          (RunRefresh(i) /\ is_mp3 /\ quality_var = "High"
                         /\ MaxAbrOf(current_info.formats) < 320
                         /\ Supported(TRUE, current_info.formats) # {})
              => quality_var' = HighestOf(Supported(TRUE, current_info.formats))]_vars

\* C13: with metadata stored and no gating handler waiting to run, the selected
\* quality is an option the metadata supports for the current kind.
C13_SelectionSupported ==
    (current_info.present /\ \A i \in DOMAIN afterq : afterq[i].h # "refresh")
        => quality_var \in Supported(is_mp3, current_info.formats)

\* C14: a run of gating that finds no supported option for the current kind
\* starts no size estimation.
C14_NoEstimateWhenUnsupported ==
    [][/\ \A i \in DOMAIN afterq :
             (RunRefresh(i) /\ Supported(is_mp3, current_info.formats) = {}) => est' = est
       /\ \A b \in BOOLEAN :
             (ClickKind(b) /\ Supported(b, current_info.formats) = {}) => est' = est]_vars

\* C15: a cache miss sets the size label to 'Estimating size...' in the step
\* that starts the estimation thread, and whenever the label shows it, the
\* label later shows a size or 'Size unknown', the query having returned or
\* raised.
C15_EstimatingEnds ==
    /\ [][BagCardinality(est') > BagCardinality(est)
             => filesize_label' = LblEstimating]_vars
    /\ (filesize_label = LblEstimating)
           ~> (filesize_label.s \in {"Estimated size", "Size unknown"})

\* A query started by a change of the kind or the quality raised, every thread
\* and handler has run, and the label shows 'Size unknown'.
C15_Witness ==
    /\ clicks > 0
    /\ Quiescent
    /\ filesize_label = LblUnknown

\* The size the service reports for a part: the exact one, else the approximate
\* one; a size of 0 is no size.
Reported(v) == v # Missing /\ v # 0
SizeOfPart(p) ==
    IF Reported(p.filesize) THEN p.filesize
    ELSE IF Reported(p.filesize_approx) THEN p.filesize_approx
    ELSE 0
RECURSIVE SumFirst(_, _)
SumFirst(parts, n) == IF n = 0 THEN 0 ELSE SumFirst(parts, n - 1) + SizeOfPart(parts[n])

\* C16: when the query of an estimation thread returns, whatever sizes are
\* missing, the thread completes, and the estimate it caches and hands to the
\* label is the sum over all parts of the resolved format of the size reported
\* for the part, 0 for a part without a reported size.
C16_EstimateIsSumOfParts ==
    [][\A k \in BagToSet(est), r \in AllSizeResults :
          EstimateReturns(k, r) =>
              /\ CacheGet(size_cache', k) = SumFirst(r.parts, Len(r.parts))
              /\ afterq'[Len(afterq')] = SizeEntry(k, SumFirst(r.parts, Len(r.parts)))]_vars

\* An estimate of 2, which takes two parts, is cached and shown.
C16_Witness ==
    /\ \E e \in size_cache : e.val = 2
    /\ filesize_label = LblSize(2)

\* A terminal styling control sequence: ESC, '[', parameters, 'm'.
HasStyling(t) ==
    \E i \in DOMAIN t : \E j \in DOMAIN t :
        /\ j >= i + 2
        /\ t[i] = Esc
        /\ t[i + 1] = "["
        /\ t[j] = "m"
        /\ \A n \in (i + 2)..(j - 1) : t[n] \in ParamChars
\* C17: the percent text in a text handed to the download status, and in the
\* download status shown, holds no terminal styling control sequence.
C17_PercentTextIsClean ==
    /\ ~HasStyling(download_status)
    /\ \A i \in DOMAIN afterq : afterq[i].h = "dlstatus" => ~HasStyling(afterq[i].t)

\* C18: every download attempt that has ended, with or without an error, has
\* revealed the output directory once, and from the end of an attempt (its
\* reset_dl_status thread is in its five seconds of sleep) the download status
\* is cleared later and the status text shows 'Idle' later.
C18_RevealAndIdle ==
    /\ [](revealed = Ended)
    /\ BagIn("sleep", resets) ~> (download_status = <<>>)
    /\ BagIn("sleep", resets) ~> (status_text = "Idle")

\* An attempt whose download raised has ended, and the display is back to
\* 'Idle' with the download status cleared.
C18_Witness ==
    /\ \E c \in BagToSet(converts) : c.pc = "done" /\ ~c.ok /\ c.events > 0
    /\ revealed = Ended
    /\ status_text = "Idle"
    /\ download_status = <<>>
    /\ resets = EmptyBag
    /\ afterq = <<>>

\* C19: whenever no download attempt is running, the input widgets are
\* enabled, whether the attempts that have ended succeeded or failed.
C19_WidgetsEnabledAgain == Running = {} => widgets = "normal"

\* An attempt whose download raised has ended and the widgets are enabled.
C19_Witness ==
    /\ Running = {}
    /\ \E c \in BagToSet(converts) : c.pc = "done" /\ ~c.ok
    /\ widgets = "normal"


\* C20: between two flushes a cache key is written at most once: a size
\* estimation thread that finishes never writes a key that the cache holds,
\* also when it is the second of two threads for that key.
C20_KeyWrittenOnce ==
    [][\A k \in BagToSet(est), r \in SizeResults :
          EstimateReturns(k, r) => k \notin CacheKeys(size_cache)]_vars


\* C21: a successful fetch clears the size cache before it publishes the new
\* metadata: after the step of wait_link that stores the result of the query
\* in current_info, where every handler reads it, the cache holds no entry that
\* was computed for another link.
C21_FlushBeforePublish ==
    [][\A w \in BagToSet(workers) : \A f \in ServiceFormats(w.url) :
          WaitLinkPublish(w, f) => \A k \in CacheKeys(size_cache') : k.url = w.url]_vars

\* C22: a metadata query that raises leaves the selected quality and the size
\* cache as they are, and registers no handler but the one that sets the link
\* status.
C22_FailedFetchKeepsSelection ==
    [][\A w \in BagToSet(workers) :
          WaitLinkFetchFails(w) =>
              /\ quality_var' = quality_var
              /\ size_cache' = size_cache
              /\ \A i \in DOMAIN afterq' : i > Len(afterq) => afterq'[i].h = "status"]_vars

\* The fetch for the latest text has failed after the fetch for an earlier text
\* succeeded; the cache holds an entry and the user has moved the selection.
C22_Witness ==
    /\ latestOutcome = "failed"
    /\ workers = EmptyBag
    /\ current_info.present
    /\ size_cache # {}
    /\ clicks > 0

\* C23: a step that removes an entry from the size cache is the flush of a
\* successful fetch, and a step that changes the cache at all is that flush or
\* the write of an estimation whose query returned: a click on a quality or on
\* a kind, an edit of the link, the rejection of a text, reset_video_info_panel,
\* a fetch that fails and an estimation that fails leave the cache as it is.
C23_OnlyFetchRemoves ==
    [][/\ (CacheKeys(size_cache) \ CacheKeys(size_cache') # {})
            => \E w \in BagToSet(workers) : WaitLinkFlush(w)
       /\ (size_cache' # size_cache)
            => \/ \E w \in BagToSet(workers) : WaitLinkFlush(w)
               \/ \E k \in BagToSet(est), r \in SizeResults : EstimateReturns(k, r)]_vars

\* The cache holds an entry after a click, the rejection of the latest text and
\* the run of reset_video_info_panel.
C23_Witness ==
    /\ size_cache # {}
    /\ clicks > 0
    /\ latestOutcome = "rejected"
    /\ Quiescent

\* A step of a background thread: wait_link, _estimate_and_update_size,
\* convert_now, yt_dlp_hook (called in the thread of the download),
\* reset_dl_status.
WorkerStep ==
    \/ \E w \in BagToSet(workers) :
          \/ WaitLinkClassify(w)
          \/ WaitLinkFetchFails(w)
          \/ \E f \in ServiceFormats(w.url) : WaitLinkPublish(w, f)
          \/ WaitLinkFlush(w)
    \/ \E k \in BagToSet(est) :
          EstimateFails(k) \/ \E r \in SizeResults : EstimateReturns(k, r)
    \/ \E c \in BagToSet(converts) :
          \/ ConvertBegin(c)
          \/ yt_dlp_hook(c, "downloading", ExamplePct)
          \/ \E ok \in BOOLEAN : DownloadEnds(c, ok)
          \/ ConvertRestore(c)
    \/ ResetClear
    \/ ResetIdle

\* C24: a step of a background thread writes neither the stored metadata, nor
\* the size cache, nor anything that is displayed; it registers handlers.
C24_WorkersWriteThroughQueue ==
    [][WorkerStep => UNCHANGED << current_info, size_cache, filesize_label,
                                  video_title, thumbnail, link_status, quality_var,
                                  menu, status_text, download_status, widgets >>]_vars


\* The events of the running download whose handler is registered and has not
\* run, and those whose handler has run.
PendingEvents == {afterq[i].n : i \in {j \in DOMAIN afterq : afterq[j].h = "dlstatus"}}
AppliedEvents(c) == {n \in DOMAIN c.sent : c.sent[n] # NoText /\ n \notin PendingEvents}
LatestOf(events) == CHOOSE n \in events : \A m \in events : m <= n

\* C25: the hook writes nothing itself and registers one handler per event
\* with the status 'downloading' or 'finished'; the handlers run in the order
\* of the events (every event applied precedes every event pending), and the
\* display shows the text of the latest event applied: once a 'Finished' text
\* is displayed, the text of no earlier event is displayed again.
C25_ProgressInOrder ==
    \A c \in BagToSet(converts) :
        /\ \A n \in AppliedEvents(c), m \in PendingEvents : n < m
        /\ \A i, j \in {k \in DOMAIN afterq : afterq[k].h = "dlstatus"} :
               i < j => afterq[i].n < afterq[j].n
        /\ \A i \in {k \in DOMAIN afterq : afterq[k].h = "dlstatus"} :
               afterq[i].t = c.sent[afterq[i].n]
        /\ download_status = (IF AppliedEvents(c) = {} THEN <<>>
                              ELSE c.sent[LatestOf(AppliedEvents(c))])

\* A 'Downloading' event and then a 'Finished' event have been reported and
\* both handlers have run: the display shows 'Finished'.
C25_Witness ==
    \E c \in BagToSet(converts) :
        /\ Len(c.sent) = 2
        /\ c.sent[1][1] = "Downloading"
        /\ c.sent[2] = << "Finished" >>
        /\ AppliedEvents(c) = {1, 2}
        /\ download_status = << "Finished" >>


\* A step in which a call to the network returns: the metadata query, the size
\* query and the download in their threads, and the retrieval of the thumbnail
\* (get_thumbnail, called by upd).
NetworkCallReturns ==
    \/ \E w \in BagToSet(workers) :
          WaitLinkFetchFails(w) \/ \E f \in ServiceFormats(w.url) : WaitLinkPublish(w, f)
    \/ \E k \in BagToSet(est) :
          EstimateFails(k) \/ \E r \in SizeResults : EstimateReturns(k, r)
    \/ \E c \in BagToSet(converts), ok \in BOOLEAN : DownloadEnds(c, ok)
    \/ \E i \in DOMAIN afterq : RunUpd(i, TRUE)
\* A step in which the UI thread runs a handler of the after queue.
HandlerRuns == \E i \in DOMAIN afterq : Runnable(i) /\ afterq' = RemoveAt(afterq, i)

\* C26: no call to the network is made by a handler of the after queue: a
\* step in which such a call returns is a step of a background thread.
C26_NetworkOnlyInWorkers == [][NetworkCallReturns => ~HandlerRuns]_vars

\* A part for which the service reports neither size.
NoSize(p) == p.filesize = Missing /\ p.filesize_approx = Missing
HasPartWithoutSize(r) ==
    \E j \in (IF r.requested THEN DOMAIN r.parts ELSE {1}) : NoSize(r.parts[j])

\* C28: when a part of the resolved format reports no size, the handler the
\* estimation thread registers does not show an ordinary estimate (it shows a
\* rough estimate or 'Size unknown').
C28_PartialIsMarked ==
    [][\A k \in BagToSet(est), r \in AllSizeResults :
          (EstimateReturns(k, r) /\ HasPartWithoutSize(r))
              => afterq'[Len(afterq')].s # "Estimated size"]_vars

\* C29: every size estimation thread was started with a quality that is
\* supported for its kind by the stored metadata.
C29_EstimateOnlySupported ==
    \A k \in BagToSet(est) : k.q \in Supported(k.mp3, current_info.formats)

\* C30: the title that is displayed and the formats that are stored (the ones
\* gating reads) are those of one fetch: when both are there, the title is the
\* one of the link the stored metadata was fetched for.
C30_TitleAndFormatsOfOneFetch ==
    (current_info.present /\ video_title # <<>>) => video_title = current_info.src


\* The format the specification names for a kind and a quality: best audio, or
\* best video at or below the target height of the quality plus best audio.
NamedFormat(mp3, quality) ==
    IF mp3 THEN << "bestaudio/best" >>
    ELSE << "bestvideo[height<=", OptValue(quality), "]+bestaudio/best" >>

\* C27: the format option a convert_now thread downloads with is the one a size
\* estimation thread queries with for the same kind and quality, and both are
\* the format named for that kind and quality.
C27_SameFormatSpecifier ==
    /\ \A c \in BagToSet(converts) :
          c.opts # NoOpts =>
              /\ c.opts.format = EstimateFormat(c.opts.mp3, c.opts.q)
              /\ c.opts.format = NamedFormat(c.opts.mp3, c.opts.q)
    /\ \A k \in BagToSet(est) : EstimateFormat(k.mp3, k.q) = NamedFormat(k.mp3, k.q)

\* A download and a size estimation thread for MP4 at 1080p exist together.
C27_Witness ==
    /\ \E c \in BagToSet(converts) :
          c.opts # NoOpts /\ ~c.opts.mp3 /\ c.opts.q = "1080p"
    /\ \E k \in BagToSet(est) : ~k.mp3 /\ k.q = "1080p"


\* C31: when the link status shows one of the two messages for a rejected text
\* and the text is not edited again, the link status shows 'Waiting for
\* link...' later (the handler delayed by 3000 ms runs).
C31_ErrorStatusReverts ==
    (link_status \in {StInvalid, StNotYoutube}) ~> (link_status = StWaiting)

\* A rejected text whose message has been replaced by 'Waiting for link...'.
C31_Witness ==
    /\ Classify(in_link_entry) \in {"InvalidSyntax", "UnsupportedPlatform"}
    /\ Quiescent
    /\ link_status = StWaiting


\* The link status the text of the latest edit ends in.
FinalStatus ==
    CASE Classify(in_link_entry) # "Valid" -> StWaiting
      [] latestOutcome = "ok" -> StFetched
      [] OTHER -> StError

\* C32: once every wait_link thread has ended and every handler has run, the
\* link status is the outcome of the text of the latest edit: 'Waiting for
\* link...' for an empty or a rejected text, 'Link fetched!' or 'Error fetching
\* link.' for a valid one.
C32_FinalStatusOfLatestEdit ==
    (edits > 0 /\ workers = EmptyBag /\ afterq = <<>>) => link_status = FinalStatus


\* C33: every size estimation thread was started for a link text that
\* wait_link classifies as valid (the key of a thread holds the text of the
\* link entry at its start).
C33_EstimateOnlyForValidLink ==
    \A k \in BagToSet(est) : Classify(k.url) = "Valid"


\* C34: at most one convert_now thread has been started and has not ended, at
\* any time, the time between the start of a thread and its call of
\* change_widgets('off') included.
C34_OneDownloadAtATime == BagCardinality(converts) - Ended <= 1


\* A download that began after the end of the last one is in progress: a
\* convert_now thread is in ydl.download and the status text is the
\* 'Converting...' it set.
Downloading ==
    /\ \E c \in BagToSet(converts) : c.pc = "download"
    /\ status_text = "Converting..."

\* C35: the handlers of a reset_dl_status thread (the one that clears the
\* download status and the one that sets 'Idle') change neither text while a
\* download that began after the one they belong to is in progress.
C35_ResetSparesLaterDownload ==
    [][\A i \in DOMAIN afterq :
          /\ (RunIdle(i) /\ Downloading) => status_text' = status_text
          /\ (RunDlStatus(i) /\ afterq[i] = DlStatusEntry(<<>>) /\ Downloading)
                => download_status' = download_status]_vars


\* The options of a kind: Low, Medium, High for audio; 480p, 720p, 1080p, 4K
\* for video.
KindLabels(mp3) == IF mp3 THEN {"Low", "Medium", "High"} ELSE {"480p", "720p", "1080p", "4K"}
MiddleLabel(mp3) == IF mp3 THEN "Medium" ELSE "1080p"

\* C36: the selected quality is always an option of the current kind; a click
\* on a kind leaves the middle option of that kind selected (Medium, 1080p), or
\* the option of that kind gating moved the selection to when the middle option
\* is not supported; a run of gating leaves an option of the kind selected.
C36_SelectionOfCurrentKind ==
    /\ [](quality_var \in KindLabels(is_mp3))
    /\ [][\A b \in BOOLEAN :
             ClickKind(b) =>
                 \/ quality_var' = MiddleLabel(b)
                 \/ /\ MiddleLabel(b) \notin Supported(b, current_info.formats)
                    /\ quality_var' \in Supported(b, current_info.formats)]_vars

\* The kind has been changed to video and 1080p is selected.
C36_Witness ==
    /\ clicks > 0
    /\ ~is_mp3
    /\ quality_var = "1080p"


\* C37: the loop between the selection and gating ends. A write of any option
\* of the kind to quality_var runs gating, which writes quality_var at most
\* once more (the fallback); a click on a kind writes the default and gating
\* writes at most once more; and gating run again on what they leave writes
\* nothing.
C37_GatingLoopTerminates ==
    /\ \A l \in KindLabels(is_mp3) :
          LET r == _refresh_quality_menu([UI EXCEPT !.q = l])
          IN  /\ r.sets <= 1
              /\ _refresh_quality_menu([r EXCEPT !.sets = 0]).sets = 0
    /\ \A b \in BOOLEAN :
          LET r == update_quality_options([UI EXCEPT !.mp3 = b])
          IN  /\ r.sets <= 2
              /\ _refresh_quality_menu([r EXCEPT !.sets = 0]).sets = 0

\* A click on a kind has ended with the selection moved from the default of the
\* kind to a supported option: gating has written quality_var.
C37_Witness ==
    /\ clicks > 0
    /\ quality_var # DefaultLabel(is_mp3)
    /\ quality_var \in Supported(is_mp3, current_info.formats)


\* C38: an estimation thread whose query raises leaves the cache as it is and
\* registers the handler that shows 'Size unknown'; a request for a key the
\* cache does not hold (the key of a failed estimation among them) shows the
\* placeholder and starts a new thread for the key.
C38_FailureIsNotCached ==
    [][/\ \A k \in BagToSet(est) :
             EstimateFails(k) => /\ size_cache' = size_cache
                                 /\ afterq' = Append(afterq, UnknownEntry(k))
       /\ \A l \in AllLabels :
             (SelectQuality(l) /\ CurrentKey' \notin CacheKeys(size_cache))
                 => /\ CopiesIn(CurrentKey', est') > CopiesIn(CurrentKey', est)
                    /\ filesize_label' = LblEstimating]_vars

\* The estimation for the selected key has failed, 'Size unknown' is about to
\* be shown, the cache does not hold the key, and the user has selected the
\* quality again: a new thread for the key is running.
C38_Witness ==
    /\ clicks > 0
    /\ CurrentKey \notin CacheKeys(size_cache)
    /\ \E i \in DOMAIN afterq : afterq[i] = UnknownEntry(CurrentKey)
    /\ CopiesIn(CurrentKey, est) = 1
    /\ filesize_label = LblEstimating


\* C39: download_file of v1.1.1. Where the file to_check names exists the call
\* shows 'File exists', ends, and has neither transferred nor renamed a file.
\* Otherwise it shows 'Downloading' before anything else: the directory
\* changes only under that status, and 'Downloaded' is shown by a call whose
\* transfer has returned and, for mp3, whose rename is done.
C39_StatusFollowsDownload ==
    /\ [](/\ (call.pc = "end" /\ Head(download_status) = "File exists @ ")
              => ~call.transferred /\ ~call.renamed
          /\ call.pc \in {"download", "rename", "report", "raised"}
              => download_status = download_status_update(<<>>, 0, call.title)
          /\ (call.pc = "end" /\ Head(download_status) = "Downloaded @ ")
              => /\ call.transferred
                 /\ call.mode = "mp3" => call.renamed
                 /\ Tail(download_status) \in files)
    /\ [][/\ (call.pc = "check" /\ call'.pc # "check")
              => /\ files' = files
                 /\ IF to_check(call.title, call.mode) \in files
                    THEN /\ call'.pc = "end"
                         /\ download_status' =
                                download_status_update(<<>>, 2, call.title)
                    ELSE /\ call'.pc = "download"
                         /\ download_status' =
                                download_status_update(<<>>, 0, call.title)
          /\ files' # files
              => /\ call.pc \in {"download", "rename"}
                 /\ download_status = download_status_update(<<>>, 0, call.title)
          /\ (download_status' # download_status
                 /\ Head(download_status') = "Downloaded @ ")
              => call.pc = "report"]_vars

\* The second call finds the mp3 file the first call downloaded and renamed:
\* 'File exists' is shown and the call has ended.
C39_Witness ==
    /\ call.calls = 2
    /\ call.pc = "end"
    /\ call.mode = "mp3"
    /\ to_check(call.title, call.mode) \in files
    /\ download_status = download_status_update(<<>>, 2, call.title)
    /\ << "a", ".", "b", ".", "mp3" >> \in files
    /\ call.title = << "a", ".", "b" >>

============================================================================
